---------------------------- MODULE Spec2Model ----------------------------
(***************************************************************************)
(* A model of songscraper's lyrics search (src/searcher.py) and of its      *)
(* batch driver (src/fetch_lyrics.py).                                     *)
(*                                                                         *)
(* Strings are sequences of one-character strings.  The two full-width     *)
(* marks U+FF1F and U+FF01 are written "FWQ" and "FWE"; the half-width     *)
(* marks are "?" and "!".  An HTML fragment is a sequence of tokens, a     *)
(* token being one tag ("<div>", "<br/>", ...) or one run of text.         *)
(* The web is the environment: every page a fetch returns is chosen        *)
(* nondeterministically from a sample set, and a fetch may also fail.      *)
(***************************************************************************)
EXTENDS Naturals, Sequences, FiniteSets

VARIABLES
    artist,            \* argument of fuzzy_title_search
    title,             \* argument of fuzzy_title_search (the caller's title)
    strict,            \* MutipleLyricsSearcher.strict
    searcher_classes,  \* MutipleLyricsSearcher.searcher_classes
    fuzzy_titles,      \* local list of fuzzy_title_search
    ti,                \* position of the loop of fuzzy_title_search (line 345)
    ai,                \* position of the loop of search (line 327)
    pc,                \* "call", "search", "lyrics" or "done"
    candidates,        \* rows selected from the search page of the running adapter
    lyrics_url,        \* value returned by get_lyrics_url of the running adapter
    extracted,         \* soup.select_one(lyrics_css_selector) of the running adapter
    outcome,           \* what fuzzy_title_search returned or raised
    searches,          \* history: one record per finished call of search
    attempts,          \* history: one record per adapter instantiated by search
    fetches,           \* history: one record per requests.get
    \* the batch driver, src/fetch_lyrics.py
    lines,             \* the lines of the input file
    li,                \* number of lines the loop at line 14 has read
    dpc,               \* "off", "read", "call", "finished" or "aborted"
    raised,            \* the exception that ended the driver, or "none"
    status,            \* what this run has printed, in order
    writes,            \* history: one record per file opened for writing in this run
    files,             \* the directory lyrics/: file name -> content
    web,               \* what the sites answer in a batch run
    run,               \* 1 for the first run of the driver, 2 for the rerun
    first_files        \* the directory lyrics/ as the first run left it

call_vars == <<artist, title, strict, searcher_classes, fuzzy_titles, ti, ai, pc,
               candidates, lyrics_url, extracted, outcome, searches, attempts, fetches>>

driver_vars == <<lines, li, dpc, raised, status, writes, files, web, run, first_files>>

vars == <<call_vars, driver_vars>>

---------------------------------------------------------------------------
(* Bounds and sample inputs *)

MaxTitleLen == 2
MaxAdapters == 3
MaxRows == 2
MaxLines == 2

TitleChars == {"x", "?", "!", "FWQ", "FWE"}

RECURSIVE SeqsUpTo(_, _)
SeqsUpTo(S, n) ==
    IF n = 0 THEN {<<>>}
    ELSE LET shorter == SeqsUpTo(S, n - 1)
         IN  shorter \cup {Append(s, c) : s \in {t \in shorter : Len(t) = n - 1}, c \in S}

Titles == SeqsUpTo(TitleChars, MaxTitleLen)

\* Artist names: empty, one letter in both cases, two names that agree only
\* in their first letter up to case, and a name with another first letter.
Artists == {<<>>, <<"a">>, <<"A">>, <<"a", "b">>, <<"A", "c">>, <<"b">>}

---------------------------------------------------------------------------
(* The four concrete searchers: src/searcher.py lines 214-318 *)

SearcherClasses == {"JLyricSearcher", "UtanetSearcher", "PetitLyricsSearcher",
                    "JLyricTitleSearcher"}

\* The list the batch driver passes (src/fetch_lyrics.py lines 16-21).
DriverClasses == <<"JLyricSearcher", "UtanetSearcher", "PetitLyricsSearcher",
                   "JLyricTitleSearcher">>

Reverse(s) == [i \in 1..Len(s) |-> s[Len(s) + 1 - i]]

Min(a, b) == IF a <= b THEN a ELSE b

\* Adapter lists given to MutipleLyricsSearcher: the beginnings of the
\* driver's list and of its reverse, the empty list included.
AdapterLists ==
    {SubSeq(DriverClasses, 1, n) : n \in 0..Min(MaxAdapters, Len(DriverClasses))}
    \cup {SubSeq(Reverse(DriverClasses), 1, n) : n \in 0..Min(MaxAdapters, Len(DriverClasses))}

\* the four selector properties of the searchers
search_result_css_selector(cls) ==
    CASE cls = "UtanetSearcher" -> "#ichiran .result_table table tbody tr"
      [] cls = "JLyricSearcher" -> "#bas #cnt #mnb .bdy"
      [] cls = "JLyricTitleSearcher" -> "#bas #cnt #mnb .bdy"
      [] cls = "PetitLyricsSearcher" -> "#lyrics_list tr"

lyrics_css_selector(cls) ==
    CASE cls = "UtanetSearcher" -> "#kashi_area"
      [] cls = "JLyricSearcher" -> "#Lyric"
      [] cls = "JLyricTitleSearcher" -> "#Lyric"
      [] cls = "PetitLyricsSearcher" -> "#lyrics"

search_result_artist_css_selector(cls) ==
    CASE cls = "UtanetSearcher" -> ".td2 a"
      [] cls = "JLyricSearcher" -> ".sml a"
      [] cls = "JLyricTitleSearcher" -> ".sml a"
      [] cls = "PetitLyricsSearcher" -> "td:nth-of-type(2) a:nth-of-type(2)"

search_result_lyrics_link_css_selector(cls) ==
    CASE cls = "UtanetSearcher" -> ".td1 a"
      [] cls = "JLyricSearcher" -> ".mid a"
      [] cls = "JLyricTitleSearcher" -> ".mid a"
      [] cls = "PetitLyricsSearcher" -> "td:nth-of-type(2) a:nth-of-type(1)"

\* every searcher returning "" as its base URL
lyrics_base_url_empty(cls) == ""

lyrics_base_url(cls) ==
    CASE cls = "UtanetSearcher" -> "https://www.uta-net.com"
      [] cls = "JLyricSearcher" -> ""
      [] cls = "JLyricTitleSearcher" -> ""
      [] cls = "PetitLyricsSearcher" -> "https://petitlyrics.com/"

\* search_url: the template of the class with self.title and self.artist put in.
\* A URL is a record of the template's fixed text and the values put in.
search_url(cls, a, t) ==
    CASE cls = "UtanetSearcher" ->
            [base |-> "https://www.uta-net.com/search/?Aselect=2&Bselect=4&x=0&y=0",
             title |-> t, artist |-> <<>>]
      [] cls = "JLyricSearcher" ->
            [base |-> "http://search.j-lyric.net/index.php?ct=2&ca=2",
             title |-> t, artist |-> a]
      [] cls = "JLyricTitleSearcher" ->
            [base |-> "http://search.j-lyric.net/index.php?ct=2&ca=2",
             title |-> t, artist |-> <<>>]
      [] cls = "PetitLyricsSearcher" ->
            [base |-> "https://petitlyrics.com/search_lyrics",
             title |-> t, artist |-> <<>>]

\* a title kept from one searcher to the next: the title of the previous
\* invocation is used again
preprocess_title_sticky(t) ==
    IF Len(attempts) > 0 THEN attempts[Len(attempts)].title ELSE t

\* preprocess_title is not overridden by any searcher.
preprocess_title(t) == t


---------------------------------------------------------------------------
(* Python string operations used by the code *)

\* x in s, for a one-character x
Contains(s, x) == \E i \in 1..Len(s) : s[i] = x

\* s.replace(old, new), for one-character old and new
replace(s, old, new) == [i \in 1..Len(s) |-> IF s[i] = old THEN new ELSE s[i]]

\* c.lower(), on the letters of the artist names
lower(c) ==
    CASE c = "A" -> "a"
      [] c = "B" -> "b"
      [] c = "C" -> "c"
      [] OTHER -> c

---------------------------------------------------------------------------
(* fuzzy_title_search, lines 335-343: the list of title variants *)

halfwidth_title(t) == replace(replace(t, "FWQ", "?"), "FWE", "!")

fullwidth_title(t) == replace(replace(t, "?", "FWQ"), "!", "FWE")

\* the variants built with the second substitution applied to the result of
\* the first one instead of the original title
build_fuzzy_titles_chained(t) ==
    LET half == halfwidth_title(t)
        first == <<t>>
        second == IF Contains(t, "FWQ") \/ Contains(t, "FWE")
                  THEN Append(first, half)
                  ELSE first
    IN  IF Contains(half, "?") \/ Contains(half, "!")
        THEN Append(second, fullwidth_title(half))
        ELSE second

\* one variant for each kind of mark the title holds, only that mark replaced
build_fuzzy_titles_per_mark(t) ==
    LET v1 == <<t>>
        v2 == IF Contains(t, "FWQ") THEN Append(v1, replace(t, "FWQ", "?")) ELSE v1
        v3 == IF Contains(t, "FWE") THEN Append(v2, replace(t, "FWE", "!")) ELSE v2
        v4 == IF Contains(t, "?") THEN Append(v3, replace(t, "?", "FWQ")) ELSE v3
    IN  IF Contains(t, "!") THEN Append(v4, replace(t, "!", "FWE")) ELSE v4

\* both substitutions made whether or not the title holds a mark
build_fuzzy_titles_unconditional(t) ==
    <<t, halfwidth_title(t), fullwidth_title(t)>>

build_fuzzy_titles(t) ==
    LET first == <<t>>
        second == IF Contains(t, "FWQ") \/ Contains(t, "FWE")
                  THEN Append(first, halfwidth_title(t))
                  ELSE first
    IN  IF Contains(t, "?") \/ Contains(t, "!")
        THEN Append(second, fullwidth_title(t))
        ELSE second

---------------------------------------------------------------------------
(* find_lyrics_link, lines 128-151 *)

\* A row of the search page (a bs4 Tag matched by search_result_css_selector):
\* whether it has an element for the artist selector, that element's text,
\* whether it has a link element with an href, and the href.  The href of the
\* row at position i is i, so that a link tells which row it came from.
NoUrl == [base |-> "", href |-> 0]

Row(has_artist, a, has_link, h) ==
    [has_artist |-> has_artist, artist |-> a, has_link |-> has_link, href |-> h]

\* suggested_artist[0].lower() == self.artist[0].lower(); the caller has
\* checked that both strings have a first character
first_char_match(suggested_artist, a) ==
    lower(suggested_artist[1]) = lower(a[1])

\* the loop body without the rule for a single result (lines 141-143)
candidate_step_no_single(cands, i, a, st) ==
    LET c == cands[i]
        suggested_artist == c.artist
    IN  IF ~c.has_artist THEN "continue"
        ELSE IF ~c.has_link THEN "AttributeError"
        ELSE IF suggested_artist = a THEN "return"
        ELSE IF ~st
             THEN IF suggested_artist = <<>> \/ a = <<>> THEN "IndexError"
                  ELSE IF first_char_match(suggested_artist, a) THEN "return"
                  ELSE "continue"
        ELSE "continue"

\* the loop body with the rule for a single result applied when a single
\* candidate has an artist element
candidate_step_single_with_artist(cands, i, a, st) ==
    LET c == cands[i]
        suggested_artist == c.artist
    IN  IF ~c.has_artist THEN "continue"
        ELSE IF ~c.has_link THEN "AttributeError"
        ELSE IF Cardinality({j \in 1..Len(cands) : cands[j].has_artist}) = 1
             THEN IF suggested_artist = <<>> \/ a = <<>> THEN "IndexError"
                  ELSE IF first_char_match(suggested_artist, a) THEN "return"
                  ELSE IF suggested_artist = a THEN "return"
                  ELSE IF ~st /\ first_char_match(suggested_artist, a) THEN "return"
                  ELSE "continue"
        ELSE IF suggested_artist = a THEN "return"
        ELSE IF ~st
             THEN IF suggested_artist = <<>> \/ a = <<>> THEN "IndexError"
                  ELSE IF first_char_match(suggested_artist, a) THEN "return"
                  ELSE "continue"
        ELSE "continue"

\* The body of the loop for one candidate: what it does with candidate i.
\*   "continue"            the row is passed over (line 133, or no branch taken)
\*   "return"              lines 143, 146, 150
\*   "AttributeError"      select_one(link_selector) is None at line 137 (or
\*                         its href is None, a TypeError at the same line)
\*   "IndexError"          suggested_artist[0] or self.artist[0] of an empty string
candidate_step(cands, i, a, st) ==
    LET c == cands[i]
        suggested_artist == c.artist
    IN  IF ~c.has_artist THEN "continue"
        ELSE IF ~c.has_link THEN "AttributeError"
        ELSE IF Len(cands) = 1
             THEN IF suggested_artist = <<>> \/ a = <<>> THEN "IndexError"
                  ELSE IF first_char_match(suggested_artist, a) THEN "return"
                  ELSE IF suggested_artist = a THEN "return"
                  ELSE IF ~st /\ first_char_match(suggested_artist, a) THEN "return"
                  ELSE "continue"
        ELSE IF suggested_artist = a THEN "return"
        ELSE IF ~st
             THEN IF suggested_artist = <<>> \/ a = <<>> THEN "IndexError"
                  ELSE IF first_char_match(suggested_artist, a) THEN "return"
                  ELSE "continue"
        ELSE "continue"

RECURSIVE find_from(_, _, _, _, _)
find_from(cands, i, a, st, cls) ==
    IF i > Len(cands) THEN [kind |-> "LyricsNotFoundError", url |-> NoUrl, row |-> 0]
    ELSE LET step == candidate_step(cands, i, a, st)
         IN  IF step = "continue" THEN find_from(cands, i + 1, a, st, cls)
             ELSE IF step = "return"
                  THEN [kind |-> "return",
                        url |-> [base |-> lyrics_base_url(cls), href |-> cands[i].href],
                        row |-> i]
             ELSE [kind |-> step, url |-> NoUrl, row |-> i]

\* find_lyrics_link reading the first row before its loop
find_lyrics_link_first_row(cands, a, st, cls) ==
    IF cands = <<>> THEN [kind |-> "IndexError", url |-> NoUrl, row |-> 0]
    ELSE find_from(cands, 1, a, st, cls)

find_lyrics_link(cands, a, st, cls) == find_from(cands, 1, a, st, cls)

---------------------------------------------------------------------------
(* postprocess, lines 185-211 and the overrides of the four searchers *)

\* Tokens that re.sub('(<tag.*?>|</tag>)', '', target) deletes: the tokens
\* that begin with "<tag" and end with ">", and the closing tag.
tag_tokens(tag) ==
    CASE tag = "p" -> {"<p>", "</p>"}
      [] tag = "div" -> {"<div>", "</div>"}
      [] tag = "canvas" -> {"<canvas>", "</canvas>"}

remove_surrounding(tag, target) == SelectSeq(target, LAMBDA tok : tok \notin tag_tokens(tag))

remove_p(target) == remove_surrounding("p", target)

remove_div(target) == remove_surrounding("div", target)

\* '</br>' is deleted, then '<br>' and '<br/>' become a newline
replace_br(target) ==
    LET close_removed == SelectSeq(target, LAMBDA tok : tok # "</br>")
    IN  [i \in 1..Len(close_removed) |->
            IF close_removed[i] \in {"<br>", "<br/>"} THEN "\n" ELSE close_removed[i]]

postprocess(cls, target) ==
    CASE cls = "UtanetSearcher" -> replace_br(remove_div(target))
      [] cls \in {"JLyricSearcher", "JLyricTitleSearcher"} -> replace_br(remove_p(target))
      [] cls = "PetitLyricsSearcher" ->
            remove_surrounding("canvas", replace_br(remove_div(target)))

\* The element select_one(lyrics_css_selector) finds in a lyrics page, or None.
NoContainer == [has_container |-> FALSE, html |-> <<>>]

Container(html) == [has_container |-> TRUE, html |-> html]

\* str(extracted): the markup of the element, and "None" for None
str(e) == IF e.has_container THEN e.html ELSE <<"None">>

\* get_lyrics, lines 180-182, once the lyrics page is parsed
extract_lyrics(cls, e) == postprocess(cls, str(e))

---------------------------------------------------------------------------
(* The pages the web may answer with *)

LyricsPages ==
    {NoContainer,
     Container(<<"<div>", "la", "<br/>", "lo", "</div>">>),
     Container(<<"<p>", "la", "<br>", "</br>", "lo", "</p>">>),
     Container(<<"<div>", "<canvas>", "</canvas>", "lo", "</div>">>)}

\* Rows a search page can hold at position i.
RowsAt(i) ==
    {Row(FALSE, <<>>, l, IF l THEN i ELSE 0) : l \in BOOLEAN}
    \cup {Row(TRUE, a, l, IF l THEN i ELSE 0) : a \in Artists, l \in BOOLEAN}

RECURSIVE PagesOfLen(_)
PagesOfLen(n) ==
    IF n = 0 THEN {<<>>}
    ELSE {Append(p, r) : p \in PagesOfLen(n - 1), r \in RowsAt(n)}

SearchPages == UNION {PagesOfLen(n) : n \in 0..MaxRows}

\* A sample of search pages: no row; one row whose artist is the full name,
\* another case of its first letter, or another name; a row without artist
\* before a matching one; two rows of which the second is the exact name; a
\* row without link; a row whose artist text is empty.
SamplePages ==
    {<<>>,
     <<Row(TRUE, <<"a", "b">>, TRUE, 1)>>,
     <<Row(TRUE, <<"A">>, TRUE, 1)>>,
     <<Row(TRUE, <<"b">>, TRUE, 1)>>,
     <<Row(FALSE, <<>>, FALSE, 0), Row(TRUE, <<"a", "b">>, TRUE, 2)>>,
     <<Row(TRUE, <<"A">>, TRUE, 1), Row(TRUE, <<"a", "b">>, TRUE, 2)>>,
     <<Row(TRUE, <<"a", "b">>, FALSE, 0)>>,
     <<Row(TRUE, <<>>, TRUE, 1), Row(TRUE, <<"b">>, TRUE, 2)>>}

---------------------------------------------------------------------------
(* MutipleLyricsSearcher: search (lines 326-332) inside fuzzy_title_search   *)
(* (lines 334-350)                                                          *)

NoLyrics == <<>>

\* the loop of search walking the list from its end
searcher_at_reversed(classes, i) == classes[Len(classes) + 1 - i]

\* for searcher in self.searcher_classes: the class tried at position i
searcher_at(classes, i) == classes[i]

\* the loop of search giving up before the last class
search_exhausted_early(classes, i) == i >= Len(classes)

\* the loop of search has run out of classes (line 332 is reached)
search_exhausted(classes, i) == i > Len(classes)

\* the loop of fuzzy_title_search giving up before the last title
fuzzy_exhausted_early(titles, i) == i >= Len(titles)

\* the loop of fuzzy_title_search has run out of titles (line 350 is reached)
fuzzy_exhausted(titles, i) == i > Len(titles)

\* the loop of fuzzy_title_search trying the rewritten titles first
title_at_reversed(titles, i) == titles[Len(titles) + 1 - i]

\* for title in fuzzy_titles: the title tried at position i
title_at(titles, i) == titles[i]

\* One adapter invocation: searcher(artist, title, strict=self.strict).get_lyrics().
\* stage is "search" until get_lyrics_url has returned a link, then "lyrics";
\* result is "running" until the invocation returns or raises.
Attempt(cls, t, stage, result) ==
    [variant |-> ti, index |-> ai, cls |-> cls, artist |-> artist, title |-> t,
     strict |-> strict, stage |-> stage, result |-> result, lyrics |-> NoLyrics]

\* get_lyrics_url fetching its search page twice
search_fetches_twice(k, cls, a, t) ==
    <<[attempt |-> k, kind |-> "search", url |-> search_url(cls, a, t)],
      [attempt |-> k, kind |-> "search", url |-> search_url(cls, a, t)]>>

\* the requests get_lyrics_url issues for attempt k (line 162)
search_fetches(k, cls, a, t) ==
    <<[attempt |-> k, kind |-> "search", url |-> search_url(cls, a, t)]>>

\* the requests get_lyrics issues for attempt k once it has the link (line 177)
lyrics_fetches(k, url) ==
    <<[attempt |-> k, kind |-> "lyrics", url |-> url]>>

\* What the sites answer in a batch run.  The class `hit` answers a search for
\* the title `title` with one row (artist "ab", with a link) when kind is
\* "match", and its search fetch raises when kind is "fail"; every other
\* search gets a page without rows.  lyrics says what the lyrics page gives:
\* a container, no container, or a fetch that raises.
NoWeb == [hit |-> "none", kind |-> "match", lyrics |-> "none", title |-> <<>>]

\* fuzzy_title_search called directly: no batch driver is running
DriverOff ==
    /\ lines = <<>>
    /\ li = 0
    /\ dpc = "off"
    /\ raised = "none"
    /\ status = <<>>
    /\ writes = <<>>
    /\ files = {}
    /\ web = NoWeb
    /\ run = 1
    /\ first_files = {}

Init ==
    /\ artist \in Artists
    /\ title \in Titles
    /\ strict \in BOOLEAN
    /\ searcher_classes \in AdapterLists
    /\ fuzzy_titles = <<>>
    /\ ti = 0
    /\ ai = 0
    /\ pc = "call"
    /\ candidates = <<>>
    /\ lyrics_url = NoUrl
    /\ extracted = NoContainer
    /\ outcome = [kind |-> "none", lyrics |-> NoLyrics]
    /\ searches = <<>>
    /\ attempts = <<>>
    /\ fetches = <<>>
    /\ DriverOff

\* lines 335-345: the variants are built and the first call of search begins
FuzzyTitleSearch ==
    /\ pc = "call"
    /\ fuzzy_titles' = build_fuzzy_titles(title)
    /\ ti' = 1
    /\ ai' = 1
    /\ pc' = "search"
    /\ UNCHANGED <<artist, title, strict, searcher_classes, candidates, lyrics_url,
                   extracted, outcome, searches, attempts, fetches>>

\* line 329 and line 162: the next searcher is built and requests.get of its
\* search page raises; neither search nor fuzzy_title_search catches it
SearchFetchFails ==
    /\ pc = "search"
    /\ ~search_exhausted(searcher_classes, ai)
    /\ LET cls == searcher_at(searcher_classes, ai)
           t == preprocess_title(title_at(fuzzy_titles, ti))
       IN  /\ fetches' = fetches \o search_fetches(Len(attempts) + 1, cls, artist, t)
           /\ attempts' = Append(attempts, Attempt(cls, t, "search", "RequestException"))
    /\ candidates' = <<>>
    /\ outcome' = [kind |-> "RequestException", lyrics |-> NoLyrics]
    /\ pc' = "done"
    /\ UNCHANGED <<artist, title, strict, searcher_classes, fuzzy_titles, ti, ai,
                   lyrics_url, extracted, searches>>

\* line 329 and get_lyrics_url (lines 162-166): the next searcher is built, its
\* search page arrives with the rows `page`, and find_lyrics_link runs on them
GetLyricsUrl(page) ==
    /\ pc = "search"
    /\ ~search_exhausted(searcher_classes, ai)
    /\ LET cls == searcher_at(searcher_classes, ai)
           t == preprocess_title(title_at(fuzzy_titles, ti))
           found == find_lyrics_link(page, artist, strict, cls)
       IN  /\ fetches' = fetches \o search_fetches(Len(attempts) + 1, cls, artist, t)
           /\ candidates' = page
           /\ CASE found.kind = "return" ->
                    \* line 177 goes on to fetch the lyrics page
                    /\ attempts' = Append(attempts, Attempt(cls, t, "lyrics", "running"))
                    /\ lyrics_url' = found.url
                    /\ pc' = "lyrics"
                    /\ UNCHANGED <<ai, outcome>>
                [] found.kind = "LyricsNotFoundError" ->
                    \* lines 330-331: caught, the loop goes to the next class
                    /\ attempts' = Append(attempts, Attempt(cls, t, "search", found.kind))
                    /\ ai' = ai + 1
                    /\ UNCHANGED <<lyrics_url, pc, outcome>>
                [] OTHER ->
                    \* any other exception leaves search and fuzzy_title_search
                    /\ attempts' = Append(attempts, Attempt(cls, t, "search", found.kind))
                    /\ outcome' = [kind |-> found.kind, lyrics |-> NoLyrics]
                    /\ pc' = "done"
                    /\ UNCHANGED <<ai, lyrics_url>>
    /\ UNCHANGED <<artist, title, strict, searcher_classes, fuzzy_titles, ti,
                   extracted, searches>>

SetResult(result, lyrics) ==
    [attempts EXCEPT ![Len(attempts)] = [@ EXCEPT !.result = result, !.lyrics = lyrics]]

\* line 177: requests.get of the lyrics page raises
LyricsFetchFails ==
    /\ pc = "lyrics"
    /\ fetches' = fetches \o lyrics_fetches(Len(attempts), lyrics_url)
    /\ attempts' = SetResult("RequestException", NoLyrics)
    /\ outcome' = [kind |-> "RequestException", lyrics |-> NoLyrics]
    /\ pc' = "done"
    /\ UNCHANGED <<artist, title, strict, searcher_classes, fuzzy_titles, ti, ai,
                   candidates, lyrics_url, extracted, searches>>

\* get_lyrics, lines 177-182, then the returns at lines 329 and 347: the
\* lyrics page arrives and select_one finds the element e in it, or None
GetLyrics(e) ==
    /\ pc = "lyrics"
    /\ fetches' = fetches \o lyrics_fetches(Len(attempts), lyrics_url)
    /\ extracted' = e
    /\ LET lyrics == extract_lyrics(searcher_at(searcher_classes, ai), e)
       IN  /\ outcome' = [kind |-> "return", lyrics |-> lyrics]
           /\ attempts' = SetResult("return", lyrics)
    /\ searches' = Append(searches, [title |-> title_at(fuzzy_titles, ti),
                                     result |-> "return"])
    /\ pc' = "done"
    /\ UNCHANGED <<artist, title, strict, searcher_classes, fuzzy_titles, ti, ai,
                   candidates, lyrics_url>>

\* fuzzy_title_search beginning again with the first title when the last one
\* has found nothing
SearchRaises_retry ==
    /\ pc = "search"
    /\ search_exhausted(searcher_classes, ai)
    /\ searches' = Append(searches, [title |-> title_at(fuzzy_titles, ti),
                                     result |-> "LyricsNotFoundError"])
    /\ ti' = IF fuzzy_exhausted(fuzzy_titles, ti + 1) THEN 1 ELSE ti + 1
    /\ ai' = 1
    /\ UNCHANGED <<artist, title, strict, searcher_classes, fuzzy_titles, candidates,
                   lyrics_url, extracted, attempts, fetches, outcome, pc>>

\* line 332: search raises LyricsNotFoundError; lines 348-350: fuzzy_title_search
\* catches it and calls search with the next title, or raises when none is left
SearchRaises ==
    /\ pc = "search"
    /\ search_exhausted(searcher_classes, ai)
    /\ searches' = Append(searches, [title |-> title_at(fuzzy_titles, ti),
                                     result |-> "LyricsNotFoundError"])
    /\ IF fuzzy_exhausted(fuzzy_titles, ti + 1)
       THEN /\ outcome' = [kind |-> "LyricsNotFoundError", lyrics |-> NoLyrics]
            /\ pc' = "done"
            /\ UNCHANGED <<ti, ai>>
       ELSE /\ ti' = ti + 1
            /\ ai' = 1
            /\ UNCHANGED <<outcome, pc>>
    /\ UNCHANGED <<artist, title, strict, searcher_classes, fuzzy_titles, candidates,
                   lyrics_url, extracted, attempts, fetches>>

Step(pages) ==
    /\ \/ FuzzyTitleSearch
       \/ SearchFetchFails
       \/ \E page \in pages : GetLyricsUrl(page)
       \/ LyricsFetchFails
       \/ \E e \in LyricsPages : GetLyrics(e)
       \/ SearchRaises
    /\ UNCHANGED driver_vars

\* One call of fuzzy_title_search, for every title, artist, strictness and
\* adapter list, the search pages drawn from the sample.
Next == Step(SamplePages)

Spec == Init /\ [][Next]_vars

\* The call runs in one thread and every requests.get it waits for comes
\* back, with a page or with an exception: a call that has a next step takes it.
SpecFair == Spec /\ WF_vars(Next)

\* One call with a single searcher class and a title without marks, which is
\* one call of get_lyrics, the search page being any page of up to MaxRows rows.
InitAdapter ==
    /\ Init
    /\ title = <<"x">>
    /\ \E cls \in SearcherClasses : searcher_classes = <<cls>>

NextAdapter == Step(SearchPages)

SpecAdapter == InitAdapter /\ [][NextAdapter]_vars

---------------------------------------------------------------------------
(* The batch driver, src/fetch_lyrics.py lines 13-29 *)

\* line.rstrip("\n")
RECURSIVE rstrip_newline(_)
rstrip_newline(line) ==
    IF line # <<>> /\ line[Len(line)] = "\n"
    THEN rstrip_newline(SubSeq(line, 1, Len(line) - 1))
    ELSE line

\* line.split("\t")
RECURSIVE split_tab(_)
split_tab(line) ==
    IF ~Contains(line, "\t") THEN <<line>>
    ELSE LET i == CHOOSE k \in 1..Len(line) :
                     line[k] = "\t" /\ \A j \in 1..(k - 1) : line[j] # "\t"
         IN  <<SubSeq(line, 1, i - 1)>> \o split_tab(SubSeq(line, i + 1, Len(line)))

\* f"{artist}-{title}" used as it is
file_name_raw(a, t) == a \o <<"-">> \o t

\* f"{artist}-{title}".replace("/", "_"), the name of the file inside lyrics/
file_name(a, t) == replace(a \o <<"-">> \o t, "/", "_")

\* open(name, "a"): the text is put after what the file holds
write_file_append(fs, name, content) ==
    {f \in fs : f.name # name}
    \cup {[name |-> name,
           content |-> IF \E f \in fs : f.name = name
                       THEN (CHOOSE f \in fs : f.name = name).content \o content
                       ELSE content]}

\* with open(name, "w") as of: of.write(lyrics) -- the file is created or
\* truncated and then holds the text
write_file(fs, name, content) ==
    {f \in fs : f.name # name} \cup {[name |-> name, content |-> content]}

\* a handler that catches every exception
driver_catches_all(kind) == TRUE

\* a handler for another exception class
driver_catches_none(kind) == FALSE

\* except LyricsNotFoundError (line 24)
driver_catches(kind) == kind = "LyricsNotFoundError"

\* Input lines: title "x" by "ab"; title "x?" by "A/c"; title "/" by "b"; a
\* line without a tab; a line whose artist is empty.
InputLines ==
    {<<"x", "\t", "a", "b", "\n">>,
     <<"x", "?", "\t", "A", "/", "c", "\n">>,
     <<"/", "\t", "b", "\n">>,
     <<"x", "\n">>,
     <<"x", "\t", "\n">>}

InputFiles == SeqsUpTo(InputLines, MaxLines)

Webs ==
    {[hit |-> h, kind |-> k, lyrics |-> l, title |-> t] :
        h \in SearcherClasses \cup {"none"},
        k \in {"match", "fail"},
        l \in {"container", "none", "fail"},
        t \in {<<"x">>, <<"x", "FWQ">>}}

\* does requests.get of the search page of class cls raise
web_search_fails(w, cls) == w.hit = cls /\ w.kind = "fail"

\* the rows of the search page of class cls for the title t
web_search_page(w, cls, t) ==
    IF w.hit = cls /\ w.kind = "match" /\ w.title = t
    THEN <<Row(TRUE, <<"a", "b">>, TRUE, 1)>>
    ELSE <<>>

\* what select_one finds in the lyrics page
web_lyrics(w) ==
    IF w.lyrics = "container"
    THEN Container(<<"<div>", "<canvas>", "</canvas>", "la", "<br/>", "lo", "</div>">>)
    ELSE NoContainer

DriverInit ==
    /\ artist = <<>>
    /\ title = <<>>
    /\ strict = FALSE
    /\ searcher_classes = <<>>
    /\ fuzzy_titles = <<>>
    /\ ti = 0
    /\ ai = 0
    /\ pc = "idle"
    /\ candidates = <<>>
    /\ lyrics_url = NoUrl
    /\ extracted = NoContainer
    /\ outcome = [kind |-> "none", lyrics |-> NoLyrics]
    /\ searches = <<>>
    /\ attempts = <<>>
    /\ fetches = <<>>
    /\ lines \in InputFiles
    /\ li = 0
    /\ dpc = "read"
    /\ raised = "none"
    /\ status = <<>>
    /\ writes = <<>>
    /\ files = {}
    /\ web \in Webs
    /\ run = 1
    /\ first_files = {}

\* lines 14-15 with a line that does not split into two fields: the
\* unpacking raises ValueError, which nothing catches
ReadBadLine ==
    /\ dpc = "read"
    /\ li < Len(lines)
    /\ Len(split_tab(rstrip_newline(lines[li + 1]))) # 2
    /\ li' = li + 1
    /\ raised' = "ValueError"
    /\ dpc' = "aborted"
    /\ UNCHANGED <<call_vars, lines, status, writes, files, web, run, first_files>>

\* lines 14-23: the next line is read and split, the MutipleLyricsSearcher is
\* built and fuzzy_title_search is called
ReadLine ==
    /\ dpc = "read"
    /\ li < Len(lines)
    /\ LET fields == split_tab(rstrip_newline(lines[li + 1]))
       IN  /\ Len(fields) = 2
           /\ title' = fields[1]
           /\ artist' = fields[2]
    /\ searcher_classes' = DriverClasses
    /\ strict' = FALSE
    /\ fuzzy_titles' = <<>>
    /\ ti' = 0
    /\ ai' = 0
    /\ pc' = "call"
    /\ candidates' = <<>>
    /\ lyrics_url' = NoUrl
    /\ extracted' = NoContainer
    /\ outcome' = [kind |-> "none", lyrics |-> NoLyrics]
    /\ searches' = <<>>
    /\ attempts' = <<>>
    /\ fetches' = <<>>
    /\ li' = li + 1
    /\ dpc' = "call"
    /\ UNCHANGED <<lines, raised, status, writes, files, web, run, first_files>>

\* line 14: the file has no further line and the script ends
EndOfInput ==
    /\ dpc = "read"
    /\ li = Len(lines)
    /\ dpc' = "finished"
    /\ UNCHANGED <<call_vars, lines, li, raised, status, writes, files, web, run,
                   first_files>>

\* the steps of fuzzy_title_search, the pages being those of the web
DriverFuzzyTitleSearch ==
    dpc = "call" /\ FuzzyTitleSearch /\ UNCHANGED driver_vars

DriverSearchFetchFails ==
    /\ dpc = "call"
    /\ pc = "search"
    /\ ~search_exhausted(searcher_classes, ai)
    /\ web_search_fails(web, searcher_at(searcher_classes, ai))
    /\ SearchFetchFails
    /\ UNCHANGED driver_vars

DriverGetLyricsUrl ==
    /\ dpc = "call"
    /\ pc = "search"
    /\ ~search_exhausted(searcher_classes, ai)
    /\ ~web_search_fails(web, searcher_at(searcher_classes, ai))
    /\ GetLyricsUrl(web_search_page(web, searcher_at(searcher_classes, ai),
                                    preprocess_title(title_at(fuzzy_titles, ti))))
    /\ UNCHANGED driver_vars

DriverLyricsFetchFails ==
    dpc = "call" /\ web.lyrics = "fail" /\ LyricsFetchFails /\ UNCHANGED driver_vars

DriverGetLyrics ==
    dpc = "call" /\ web.lyrics # "fail" /\ GetLyrics(web_lyrics(web)) /\ UNCHANGED driver_vars

DriverSearchRaises ==
    dpc = "call" /\ SearchRaises /\ UNCHANGED driver_vars

\* lines 24-26: LyricsNotFoundError is caught, reported, and the loop continues
HandleNotFound ==
    /\ dpc = "call"
    /\ pc = "done"
    /\ outcome.kind # "return"
    /\ driver_catches(outcome.kind)
    /\ status' = Append(status, [text |-> "Lyrics not found", title |-> title,
                                  artist |-> artist])
    /\ dpc' = "read"
    /\ UNCHANGED <<call_vars, lines, li, raised, writes, files, web, run, first_files>>

\* lines 27-29: the lyrics are reported and written to their file
HandleFound ==
    /\ dpc = "call"
    /\ pc = "done"
    /\ outcome.kind = "return"
    /\ status' = Append(status, [text |-> "Lyrics found", title |-> title,
                                  artist |-> artist])
    /\ files' = write_file(files, file_name(artist, title), outcome.lyrics)
    /\ writes' = Append(writes, [line |-> li, name |-> file_name(artist, title),
                                  content |-> outcome.lyrics])
    /\ dpc' = "read"
    /\ UNCHANGED <<call_vars, lines, li, raised, web, run, first_files>>

\* line 23 raises something else than LyricsNotFoundError: the script ends
\* with that exception
HandleOther ==
    /\ dpc = "call"
    /\ pc = "done"
    /\ outcome.kind # "return"
    /\ ~driver_catches(outcome.kind)
    /\ raised' = outcome.kind
    /\ dpc' = "aborted"
    /\ UNCHANGED <<call_vars, lines, li, status, writes, files, web, run, first_files>>

\* the script is started again, as a new process, on the same file, with the
\* same web and with the directory lyrics/ as the first run left it
Rerun ==
    /\ run = 1
    /\ dpc \in {"finished", "aborted"}
    /\ run' = 2
    /\ first_files' = files
    /\ li' = 0
    /\ dpc' = "read"
    /\ raised' = "none"
    /\ status' = <<>>
    /\ writes' = <<>>
    /\ artist' = <<>>
    /\ title' = <<>>
    /\ strict' = FALSE
    /\ searcher_classes' = <<>>
    /\ fuzzy_titles' = <<>>
    /\ ti' = 0
    /\ ai' = 0
    /\ pc' = "idle"
    /\ candidates' = <<>>
    /\ lyrics_url' = NoUrl
    /\ extracted' = NoContainer
    /\ outcome' = [kind |-> "none", lyrics |-> NoLyrics]
    /\ searches' = <<>>
    /\ attempts' = <<>>
    /\ fetches' = <<>>
    /\ UNCHANGED <<lines, files, web>>

DriverNext ==
    \/ ReadBadLine
    \/ ReadLine
    \/ EndOfInput
    \/ DriverFuzzyTitleSearch
    \/ DriverSearchFetchFails
    \/ DriverGetLyricsUrl
    \/ DriverLyricsFetchFails
    \/ DriverGetLyrics
    \/ DriverSearchRaises
    \/ HandleNotFound
    \/ HandleFound
    \/ HandleOther
    \/ Rerun

\* The script run on an input file and then run again, for every input file of
\* up to MaxLines lines and every web.
SpecDriver == DriverInit /\ [][DriverNext]_vars

\* The script is one sequential process and the fetches it waits for return
\* (with a page or with an exception): whenever it has a next step, it takes it.
SpecDriverFair == SpecDriver /\ WF_vars(DriverNext)

---------------------------------------------------------------------------
(* Properties of search and fuzzy_title_search *)

LNF == "LyricsNotFoundError"

LastAttempt == attempts[Len(attempts)]

\* the positions in attempts of the adapters invoked by the v-th call of search
AttemptsOf(v) == {k \in 1..Len(attempts) : attempts[k].variant = v}

\* C1: search tries the classes of searcher_classes in list order, each once
\* and each with the artist, the title of this call and the strict flag; every
\* adapter invoked before another one raised LyricsNotFoundError; when search
\* returns, it returns what the last adapter invoked returned, and that is the
\* only adapter of the call that did not raise LyricsNotFoundError.
C1_SearchFirstSuccessInOrder ==
    /\ \A k \in 1..Len(attempts) :
          LET a == attempts[k]
          IN  /\ a.index \in 1..Len(searcher_classes)
              /\ a.cls = searcher_classes[a.index]
              /\ a.index = Cardinality({j \in AttemptsOf(a.variant) : j < k}) + 1
              /\ a.artist = artist
              /\ a.strict = strict
              /\ \A j \in AttemptsOf(a.variant) : attempts[j].title = a.title
              /\ k < Len(attempts) => a.result = LNF
    /\ \A v \in 1..Len(searches) :
          searches[v].result = "return" =>
              /\ v = Len(searches)
              /\ LastAttempt.variant = v
              /\ LastAttempt.title = searches[v].title
              /\ LastAttempt.result = "return"
              /\ outcome = [kind |-> "return", lyrics |-> LastAttempt.lyrics]
              /\ pc = "done"

\* Two adapters raised LyricsNotFoundError and the third one's lyrics are returned.
C1_Witness ==
    /\ pc = "done"
    /\ outcome.kind = "return"
    /\ Len(searches) = 1
    /\ Len(attempts) = 3
    /\ attempts[1].result = LNF
    /\ attempts[2].result = LNF
    /\ attempts[3].cls = searcher_classes[3]

\* C2: a call of search raises LyricsNotFoundError only after it has invoked
\* every class of the list exactly once, in order, and each has raised
\* LyricsNotFoundError; and once every class of the list has raised it (at
\* once, for the empty list), the next thing that happens is that search
\* raises LyricsNotFoundError.
C2_AllRaised(v) ==
    /\ Cardinality(AttemptsOf(v)) = Len(searcher_classes)
    /\ \A i \in 1..Len(searcher_classes) :
          \E k \in AttemptsOf(v) :
              /\ attempts[k].index = i
              /\ attempts[k].cls = searcher_classes[i]
              /\ attempts[k].result = LNF

C2_SearchRaisesWhenAllRaise ==
    /\ [](\A v \in 1..Len(searches) : searches[v].result = LNF => C2_AllRaised(v))
    /\ [][(pc = "search" /\ C2_AllRaised(ti))
            => /\ Len(searches') = Len(searches) + 1
               /\ searches'[Len(searches')].result = LNF
               /\ attempts' = attempts]_vars

\* search has raised LyricsNotFoundError after two or more adapters did.
C2_Witness ==
    /\ Len(searcher_classes) >= 2
    /\ Len(searches) >= 1
    /\ searches[1].result = LNF
    /\ Len(attempts) >= Len(searcher_classes)

\* C3: the k-th adapter invocation of fuzzy_title_search is the k-th pair
\* (title variant, adapter) in lexicographic order, variant first; it gets the
\* caller's artist and strict flag and the variant as its title; every
\* invocation before the last raised LyricsNotFoundError; and when
\* fuzzy_title_search returns, it returns the lyrics of the last invocation,
\* after which nothing more is attempted.
C3_PairOrder ==
    /\ \A k \in 1..Len(attempts) :
          LET a == attempts[k]
              n == Len(searcher_classes)
          IN  /\ n > 0
              /\ a.variant = ((k - 1) \div n) + 1
              /\ a.index = ((k - 1) % n) + 1
              /\ a.variant \in 1..Len(fuzzy_titles)
              /\ a.title = build_fuzzy_titles(title)[a.variant]
              /\ a.cls = searcher_classes[a.index]
              /\ a.artist = artist
              /\ a.strict = strict
              /\ k < Len(attempts) => a.result = LNF
    /\ outcome.kind = "return" =>
          /\ Len(attempts) > 0
          /\ LastAttempt.result = "return"
          /\ outcome.lyrics = LastAttempt.lyrics

C3_FuzzyFirstSuccessInPairOrder ==
    /\ []C3_PairOrder
    /\ [][outcome.kind = "return" => UNCHANGED <<attempts, fetches, outcome>>]_vars

\* The lyrics come from the second adapter on the second title variant, after
\* both adapters failed on the first variant and the first failed on the second.
C3_Witness ==
    /\ outcome.kind = "return"
    /\ Len(searcher_classes) = 2
    /\ Len(attempts) = 4
    /\ LastAttempt.variant = 2
    /\ LastAttempt.index = 2
    /\ LastAttempt.title # title

\* C4: fuzzy_title_search raises LyricsNotFoundError exactly when search has
\* raised it for every title variant, and then every pair (variant, adapter)
\* has been attempted once and has raised LyricsNotFoundError.
C4_AllVariantsRaised ==
    /\ Len(searches) = Len(fuzzy_titles)
    /\ \A v \in 1..Len(searches) : searches[v].result = LNF

C4_FuzzyRaisesAfterAllPairs ==
    pc # "call" =>
        /\ C4_AllVariantsRaised <=> outcome.kind = LNF
        /\ outcome.kind = LNF =>
              /\ pc = "done"
              /\ Len(attempts) = Len(fuzzy_titles) * Len(searcher_classes)
              /\ \A v \in 1..Len(fuzzy_titles), i \in 1..Len(searcher_classes) :
                    Cardinality({k \in 1..Len(attempts) :
                                    /\ attempts[k].variant = v
                                    /\ attempts[k].index = i
                                    /\ attempts[k].title = fuzzy_titles[v]
                                    /\ attempts[k].result = LNF}) = 1

\* fuzzy_title_search has raised after three variants times two adapters.
C4_Witness ==
    /\ outcome.kind = LNF
    /\ Len(fuzzy_titles) = 3
    /\ Len(searcher_classes) = 2
    /\ Len(attempts) = 6

\* C5: the variant list is the original title; then, if the original has a
\* full-width mark, the title with exactly the full-width marks made half-width;
\* then, if the original has a half-width mark, the title with exactly the
\* half-width marks made full-width.  "x" followed by a full-width question
\* mark gives that title and "x?"; "x!" gives "x!" and "x" followed by a
\* full-width exclamation mark; a title without marks gives itself alone.
C5_ToHalf(c) == IF c = "FWQ" THEN "?" ELSE IF c = "FWE" THEN "!" ELSE c

C5_ToFull(c) == IF c = "?" THEN "FWQ" ELSE IF c = "!" THEN "FWE" ELSE c

C5_Expected(t) ==
    LET hasFull == \E i \in 1..Len(t) : t[i] \in {"FWQ", "FWE"}
        hasHalf == \E i \in 1..Len(t) : t[i] \in {"?", "!"}
        half == [i \in 1..Len(t) |-> C5_ToHalf(t[i])]
        full == [i \in 1..Len(t) |-> C5_ToFull(t[i])]
    IN  <<t>> \o (IF hasFull THEN <<half>> ELSE <<>>)
              \o (IF hasHalf THEN <<full>> ELSE <<>>)

C5_VariantList ==
    pc # "call" =>
        /\ fuzzy_titles = C5_Expected(title)
        /\ title = <<"x", "FWQ">> => fuzzy_titles = <<<<"x", "FWQ">>, <<"x", "?">>>>
        /\ title = <<"x", "!">> => fuzzy_titles = <<<<"x", "!">>, <<"x", "FWE">>>>
        /\ (\A i \in 1..Len(title) : title[i] \notin {"?", "!", "FWQ", "FWE"})
              => fuzzy_titles = <<title>>

\* The variants of a title that holds a full-width and a half-width mark.
C5_Witness ==
    /\ pc # "call"
    /\ title = <<"FWE", "?">>
    /\ fuzzy_titles = <<<<"FWE", "?">>, <<"!", "?">>, <<"FWE", "FWQ">>>>

---------------------------------------------------------------------------
(* Properties of one adapter invocation *)

\* the search page of the last adapter invoked has arrived and candidates
\* holds its rows
SearchPageArrived ==
    /\ Len(attempts) > 0
    /\ ~(LastAttempt.stage = "search" /\ LastAttempt.result = "RequestException")

\* C6: get_lyrics does not return a lyrics text when the lyrics page has no
\* element for the lyrics selector: the invocation ends in LyricsNotFoundError.
C6_NoContainerIsNotFound ==
    (/\ Len(attempts) > 0
     /\ LastAttempt.stage = "lyrics"
     /\ LastAttempt.result \notin {"running", "RequestException"}
     /\ ~extracted.has_container)
        => /\ LastAttempt.result = LNF
           /\ outcome.kind # "return"

\* C7: when the search page of an adapter has no result row, the invocation
\* raises LyricsNotFoundError (and has not gone on to a lyrics page).
C7_ZeroRowsNotFound ==
    (SearchPageArrived /\ candidates = <<>>)
        => /\ LastAttempt.result = LNF
           /\ LastAttempt.stage = "search"

\* An adapter was given a search page without rows.
C7_Witness ==
    /\ SearchPageArrived
    /\ candidates = <<>>
    /\ LastAttempt.cls = "PetitLyricsSearcher"
    /\ LastAttempt.result = LNF

\* C8: for a page of exactly one row that has an artist and a link, the first
\* characters of the row's artist and of the query artist being equal up to
\* case, find_lyrics_link returns that row's link (base URL of the class plus
\* the row's href), whatever strict is and whether or not the names are equal.
C8_SingleRowFirstChar ==
    (/\ SearchPageArrived
     /\ Len(candidates) = 1
     /\ candidates[1].has_artist
     /\ candidates[1].has_link
     /\ candidates[1].artist # <<>>
     /\ artist # <<>>
     /\ lower(candidates[1].artist[1]) = lower(artist[1]))
        => /\ LastAttempt.stage = "lyrics"
           /\ lyrics_url = [base |-> lyrics_base_url(LastAttempt.cls),
                            href |-> candidates[1].href]

\* strict is on and the single row's artist agrees with the query artist in
\* the first letter only, up to case.
C8_Witness ==
    /\ SearchPageArrived
    /\ strict
    /\ artist = <<"a", "b">>
    /\ Len(candidates) = 1
    /\ candidates[1] = Row(TRUE, <<"A", "c">>, TRUE, 1)
    /\ LastAttempt.stage = "lyrics"

\* the rule of selection the claim C9 states for one row
C9_Qualifies(c) ==
    /\ c.has_artist
    /\ \/ c.artist = artist
       \/ /\ ~strict
          /\ c.artist # <<>>
          /\ artist # <<>>
          /\ lower(c.artist[1]) = lower(artist[1])

\* every row that has an artist element has a non-empty artist text and a link
C9_WellFormedRows ==
    \A i \in 1..Len(candidates) :
        candidates[i].has_artist => (candidates[i].has_link /\ candidates[i].artist # <<>>)

C9_Rule ==
    LET qualifying == {i \in 1..Len(candidates) : C9_Qualifies(candidates[i])}
    IN  IF qualifying = {}
        THEN LastAttempt.stage = "search" /\ LastAttempt.result = LNF
        ELSE /\ LastAttempt.stage = "lyrics"
             /\ \E i \in qualifying :
                   /\ \A j \in qualifying : i <= j
                   /\ lyrics_url = [base |-> lyrics_base_url(LastAttempt.cls),
                                    href |-> candidates[i].href]

\* C9: for a page of more than one row (every row with an artist having a
\* link), a row is selected iff its artist equals the query artist or strict
\* is off and the first characters agree up to case; the link of the first
\* such row is returned, and LyricsNotFoundError is raised exactly when there
\* is none.
C9_SelectionRule ==
    (SearchPageArrived /\ Len(candidates) > 1 /\ C9_WellFormedRows) => C9_Rule

\* The rule of C9 where both first characters exist: the query artist is not
\* empty either.
C9_SelectionRuleNonEmptyArtist ==
    (SearchPageArrived /\ Len(candidates) > 1 /\ C9_WellFormedRows /\ artist # <<>>)
        => C9_Rule

\* C10: an adapter invocation that returns has issued exactly two fetches,
\* its search URL and then the lyrics URL it found; one that raises
\* LyricsNotFoundError has issued exactly one, its search URL.
C10_FetchesOf(k) == SelectSeq(fetches, LAMBDA f : f.attempt = k)

C10_FetchCounts ==
    \A k \in 1..Len(attempts) :
        LET a == attempts[k]
            f == C10_FetchesOf(k)
            search == [attempt |-> k, kind |-> "search",
                       url |-> search_url(a.cls, a.artist, a.title)]
        IN  /\ a.result = "return" =>
                  f = <<search, [attempt |-> k, kind |-> "lyrics", url |-> lyrics_url]>>
            /\ a.result = LNF => f = <<search>>

\* One adapter did not find the song and the next one returned lyrics.
C10_Witness ==
    /\ outcome.kind = "return"
    /\ Len(attempts) = 2
    /\ Len(fetches) = 3
    /\ fetches[3].kind = "lyrics"

---------------------------------------------------------------------------
(* The batch driver's claims, checked under SpecDriver *)

Failure(kind) == kind \notin {"none", "running", "return", LNF}

\* C11: a failure of an adapter that is not LyricsNotFoundError is caught by
\* neither search nor fuzzy_title_search.  The attempt that failed is the last
\* attempt of the call, the call has ended with that very exception (no further
\* adapter or title variant is tried), and the batch driver's next step ends
\* the run with it: no status line, no file, and the lines after the failing
\* one are never read.
C11_Propagated ==
    /\ \A k \in 1..Len(attempts) :
          Failure(attempts[k].result) =>
              /\ k = Len(attempts)
              /\ pc = "done"
              /\ outcome.kind = attempts[k].result
    /\ (pc = "done" /\ Failure(outcome.kind) /\ dpc # "call") =>
          /\ dpc = "aborted"
          /\ raised = outcome.kind
          /\ Len(status) = li - 1
    /\ dpc = "aborted" => raised # "none" /\ Len(status) = li - 1

C11_OtherFailurePropagates ==
    /\ []C11_Propagated
    /\ [][/\ (dpc = "call" /\ pc = "done" /\ Failure(outcome.kind)) =>
                /\ dpc' = "aborted"
                /\ raised' = outcome.kind
                /\ UNCHANGED <<li, status, writes, files, attempts, fetches>>
          /\ (dpc = "aborted" /\ run' = run) =>
                UNCHANGED <<dpc, raised, li, status, writes, files, attempts, fetches>>]_vars

\* a transport failure at the first adapter of the first line of a longer
\* file: the run has ended with it, three adapters and a line untried
C11_Witness ==
    /\ dpc = "aborted"
    /\ raised = "RequestException"
    /\ li = 1
    /\ Len(lines) > 1
    /\ Len(attempts) = 1
    /\ Len(searcher_classes) = 4
    /\ status = <<>>

C12_NotFoundPending == dpc = "call" /\ pc = "done" /\ outcome.kind = LNF

C12_RunOver ==
    \/ dpc = "finished" /\ li = Len(lines) /\ Len(status) = Len(lines)
    \/ dpc = "aborted" /\ Failure(raised)

\* C12: in the batch driver, a pair for which fuzzy_title_search raises
\* LyricsNotFoundError gets the status line "Lyrics not found" with its title
\* and artist, no file is written for it, and the loop goes on to the next
\* line.  LyricsNotFoundError never ends the run: a run ends only at the end of
\* the input, with one status line per input line, or with another exception;
\* and every run does come to its end.
C12_NotFoundContinues ==
    /\ [](dpc = "aborted" => raised # LNF)
    /\ [][C12_NotFoundPending =>
            /\ status' = Append(status, [text |-> "Lyrics not found",
                                         title |-> title, artist |-> artist])
            /\ dpc' = "read"
            /\ UNCHANGED <<li, lines, raised, writes, files>>]_vars
    /\ \A n \in 1..MaxLines :
          (C12_NotFoundPending /\ li = n /\ n < Len(lines)) ~> (li = n + 1)
    /\ <>[]C12_RunOver

\* the first line was not found, nothing was written, and the second line is
\* being searched
C12_Witness ==
    /\ run = 1
    /\ li = 2
    /\ dpc = "call"
    /\ Len(status) = 1
    /\ status[1].text = "Lyrics not found"
    /\ files = {}
    /\ writes = <<>>

C13_Found == SelectSeq(status, LAMBDA st : st.text = "Lyrics found")

\* <artist>-<title> with every "/" replaced by "_"
C13_IsNameOf(name, a, t) ==
    LET combined == a \o <<"-">> \o t
    IN  /\ Len(name) = Len(combined)
        /\ \A i \in 1..Len(name) :
              name[i] = IF combined[i] = "/" THEN "_" ELSE combined[i]

C13_OneFilePerSuccess ==
    /\ Len(writes) = Len(C13_Found)
    /\ \A k \in 1..Len(writes) :
          C13_IsNameOf(writes[k].name, C13_Found[k].artist, C13_Found[k].title)
    \* the driver's adapter order, only the third adapter matching
    /\ (/\ dpc # "off"
        /\ pc = "done"
        /\ outcome.kind = "return"
        /\ web.hit = "PetitLyricsSearcher") =>
          /\ LastAttempt.cls = "PetitLyricsSearcher"
          /\ LastAttempt.index = 3
          /\ outcome.lyrics = extract_lyrics("PetitLyricsSearcher", extracted)
          /\ \A k \in 1..Len(attempts) :
                attempts[k].cls = "JLyricTitleSearcher" =>
                    attempts[k].variant < LastAttempt.variant

\* C13: in the batch driver, for each input pair for which fuzzy_title_search
\* succeeds, exactly one file is written: its name inside lyrics/ is
\* <artist>-<title>, artist and title as read from the line, with every "/"
\* replaced by "_", and it holds exactly the text returned; nothing else in
\* lyrics/ changes.  With the driver's adapter order, when only the third
\* adapter matches, that text is the third adapter's and the fourth adapter
\* is not invoked for the variant that matched.
C13_SuccessWritesOneFile ==
    /\ []C13_OneFilePerSuccess
    /\ [][(dpc = "call" /\ pc = "done" /\ outcome.kind = "return") =>
            /\ Len(writes') = Len(writes) + 1
            /\ LET w == writes'[Len(writes')]
               IN  /\ C13_IsNameOf(w.name, artist, title)
                   /\ w.content = outcome.lyrics
                   /\ Cardinality({f \in files' : f.name = w.name}) = 1
                   /\ \A f \in files' : f.name = w.name => f.content = outcome.lyrics
                   /\ {f \in files' : f.name # w.name} = {f \in files : f.name # w.name}
            /\ status' = Append(status, [text |-> "Lyrics found",
                                         title |-> title, artist |-> artist])]_vars

\* the line "x?" by "A/c": the third adapter matched the second variant after
\* six attempts that found nothing, and lyrics/A_c-x? holds its text
C13_Witness ==
    /\ run = 1
    /\ dpc = "read"
    /\ artist = <<"A", "/", "c">>
    /\ title = <<"x", "?">>
    /\ Len(attempts) = 7
    /\ LastAttempt.cls = "PetitLyricsSearcher"
    /\ LastAttempt.variant = 2
    /\ files = {[name |-> <<"A", "_", "c", "-", "x", "?">>,
                 content |-> <<"la", "\n", "lo">>]}
    /\ Len(writes) = 1

C14_RunEnded == dpc \in {"finished", "aborted"}

\* C14: running the batch driver twice on the same input file with the same
\* responses leaves lyrics/ as the first run left it: the same files with the
\* same contents.  A file is overwritten: lyrics/ holds one file per name, and
\* a file written in the second run holds what the run wrote, not more.
C14_RerunLeavesSameFiles ==
    /\ \A f, g \in files : f.name = g.name => f = g
    /\ (run = 2 /\ C14_RunEnded) => files = first_files
    /\ run = 2 =>
          \A k \in 1..Len(writes) :
              [name |-> writes[k].name, content |-> writes[k].content] \in first_files

\* the second run has ended after writing the same file twice, as the first
\* run did, and lyrics/ holds that one file
C14_Witness ==
    /\ run = 2
    /\ dpc = "finished"
    /\ Len(writes) = 2
    /\ Cardinality(files) = 1
    /\ files = first_files

---------------------------------------------------------------------------
(* Claims about one call of fuzzy_title_search *)

C15_JLyric == {"JLyricSearcher", "JLyricTitleSearcher"}

C15_SelectorsAndSearchUrl(cls) ==
    /\ search_url(cls, artist, title).base # ""
    /\ search_result_css_selector(cls) # ""
    /\ search_result_artist_css_selector(cls) # ""
    /\ search_result_lyrics_link_css_selector(cls) # ""
    /\ lyrics_css_selector(cls) # ""

\* C15 as the claim states it: every adapter the caller holds has a non-empty
\* search URL, row selector, artist selector, link selector, lyrics-page base
\* URL and lyrics selector.
C15_AllPoliciesNonEmpty ==
    \A i \in 1..Len(searcher_classes) :
        /\ C15_SelectorsAndSearchUrl(searcher_classes[i])
        /\ lyrics_base_url(searcher_classes[i]) # ""

\* C15, amended: every adapter has a non-empty search URL, row selector, artist
\* selector, link selector and lyrics selector; the lyrics-page base URL is
\* non-empty for Utanet and PetitLyrics and is the empty string for JLyric and
\* JLyricTitle, whose lyrics page is fetched at the link's href alone.
C15_PoliciesNonEmptyButJLyricBase ==
    /\ \A i \in 1..Len(searcher_classes) :
          /\ C15_SelectorsAndSearchUrl(searcher_classes[i])
          /\ lyrics_base_url(searcher_classes[i]) = ""
                <=> searcher_classes[i] \in C15_JLyric
    /\ \A k \in 1..Len(fetches) :
          /\ fetches[k].kind = "search" => fetches[k].url.base # ""
          /\ fetches[k].kind = "lyrics" =>
                (fetches[k].url.base = ""
                    <=> attempts[fetches[k].attempt].cls \in C15_JLyric)

\* JLyricSearcher, the first of three adapters, has found a link, and its
\* lyrics page has been fetched at an address without base
C15_Witness ==
    /\ pc = "done"
    /\ outcome.kind = "return"
    /\ Len(searcher_classes) = 3
    /\ Len(attempts) = 1
    /\ LastAttempt.cls = "JLyricSearcher"
    /\ fetches[Len(fetches)].kind = "lyrics"
    /\ fetches[Len(fetches)].url.base = ""

C16_HasFull(t) == \E i \in 1..Len(t) : t[i] \in {"FWQ", "FWE"}

C16_HasHalf(t) == \E i \in 1..Len(t) : t[i] \in {"?", "!"}

C16_Counterpart(c) ==
    CASE c = "FWQ" -> "?" [] c = "FWE" -> "!" [] c = "?" -> "FWQ" [] c = "!" -> "FWE"
      [] OTHER -> c

\* C16: the title variants are derived from the original title.  The list
\* begins with the original and has one more entry if the original holds a
\* full-width mark and one more if it holds a half-width mark, so never more
\* than three; every entry is the original with some marks replaced by their
\* counterparts; and for an original with both kinds of mark the list is
\* exactly: the original, the original with its full-width marks made
\* half-width (its half-width marks as they were), the original with its
\* half-width marks made full-width (its full-width marks as they were).
C16_VariantsFromOriginal ==
    pc \notin {"call", "idle"} =>
        /\ Len(fuzzy_titles) <= 3
        /\ Len(fuzzy_titles) = 1 + (IF C16_HasFull(title) THEN 1 ELSE 0)
                                 + (IF C16_HasHalf(title) THEN 1 ELSE 0)
        /\ fuzzy_titles[1] = title
        /\ \A k \in 1..Len(fuzzy_titles) :
              /\ Len(fuzzy_titles[k]) = Len(title)
              /\ \A i \in 1..Len(title) :
                    fuzzy_titles[k][i] \in {title[i], C16_Counterpart(title[i])}
        /\ (C16_HasFull(title) /\ C16_HasHalf(title)) =>
              /\ Len(fuzzy_titles) = 3
              /\ \A i \in 1..Len(title) :
                    /\ fuzzy_titles[2][i] = IF title[i] \in {"FWQ", "FWE"}
                                            THEN C16_Counterpart(title[i]) ELSE title[i]
                    /\ fuzzy_titles[3][i] = IF title[i] \in {"?", "!"}
                                            THEN C16_Counterpart(title[i]) ELSE title[i]

\* the three variants of a title with a half-width and a full-width mark
C16_Witness ==
    /\ pc = "search"
    /\ title = <<"?", "FWE">>
    /\ fuzzy_titles = <<<<"?", "FWE">>, <<"?", "!">>, <<"FWQ", "FWE">>>>

C17_NoArtist == {i \in 1..Len(candidates) : ~candidates[i].has_artist}

\* C17: in find_lyrics_link a row without an artist element is skipped.  Its
\* link is never the one returned and it raises nothing, with or without a
\* link element: a page of such rows only gives LyricsNotFoundError.  The
\* scan goes on past it: a row after it whose artist is the query artist is
\* selected.  It still counts toward len(candidates): with strict on, a page
\* of two rows, one without artist and one (with a link) whose artist agrees
\* with the query artist in the first character only, gives
\* LyricsNotFoundError.
C17_NoArtistRowSkipped ==
    SearchPageArrived =>
        /\ LastAttempt.stage = "lyrics" =>
              \E i \in 1..Len(candidates) :
                  /\ i \notin C17_NoArtist
                  /\ candidates[i].has_link
                  /\ lyrics_url.href = candidates[i].href
        /\ C17_NoArtist = 1..Len(candidates) =>
              LastAttempt.stage = "search" /\ LastAttempt.result = LNF
        /\ \A i \in 1..Len(candidates) :
              (/\ \A j \in 1..(i - 1) : j \in C17_NoArtist
               /\ Len(candidates) > 1
               /\ candidates[i].has_artist
               /\ candidates[i].has_link
               /\ candidates[i].artist = artist) =>
                  /\ LastAttempt.stage = "lyrics"
                  /\ lyrics_url.href = candidates[i].href
        /\ \A i, j \in 1..Len(candidates) :
              (/\ strict
               /\ Len(candidates) = 2
               /\ i # j
               /\ i \in C17_NoArtist
               /\ candidates[j].has_artist
               /\ candidates[j].has_link
               /\ candidates[j].artist # <<>>
               /\ artist # <<>>
               /\ candidates[j].artist # artist
               /\ lower(candidates[j].artist[1]) = lower(artist[1])) =>
                  LastAttempt.stage = "search" /\ LastAttempt.result = LNF

\* strict is on; the first row has a link but no artist, the second row's
\* artist "Ac" agrees with the query artist "ab" in the first letter only
C17_Witness ==
    /\ SearchPageArrived
    /\ strict
    /\ artist = <<"a", "b">>
    /\ candidates = <<Row(FALSE, <<>>, TRUE, 1), Row(TRUE, <<"A", "c">>, TRUE, 2)>>
    /\ LastAttempt.stage = "search"
    /\ LastAttempt.result = LNF

\* C18: the title variants built by one fuzzy_title_search call are pairwise
\* distinct, and within the call no (title variant, adapter) pair is attempted
\* twice: no two adapter invocations have the same title and the same place
\* in the adapter list, nor the same title and the same class.
C18_VariantsDistinct ==
    /\ \A i, j \in 1..Len(fuzzy_titles) :
          i # j => fuzzy_titles[i] # fuzzy_titles[j]
    /\ \A k, l \in 1..Len(attempts) :
          k # l =>
              /\ <<attempts[k].title, attempts[k].index>>
                    # <<attempts[l].title, attempts[l].index>>
              /\ <<attempts[k].title, attempts[k].cls>>
                    # <<attempts[l].title, attempts[l].cls>>
              /\ <<attempts[k].variant, attempts[k].index>>
                    # <<attempts[l].variant, attempts[l].index>>

\* three variants and three adapters: nine invocations, the last of them of
\* the third variant
C18_Witness ==
    /\ Len(fuzzy_titles) = 3
    /\ Len(searcher_classes) = 3
    /\ Len(attempts) = 9
    /\ LastAttempt.title = fuzzy_titles[3]
    /\ LastAttempt.title # attempts[1].title
    /\ attempts[4].title # attempts[1].title

C19_Bounds ==
    /\ Len(attempts) <= 3 * Len(searcher_classes)
    /\ Len(searches) <= 3
    /\ \A k \in 1..Len(attempts) :
          Cardinality({f \in 1..Len(fetches) : fetches[f].attempt = k}) <= 2
    /\ \A f \in 1..Len(fetches) : fetches[f].attempt \in 1..Len(attempts)
    /\ pc = "done" => outcome.kind # "none"
    /\ (pc = "done" /\ outcome.kind = "return") => outcome.lyrics = LastAttempt.lyrics
    /\ outcome.kind # "none" => pc = "done"

\* C19: every requests.get coming back, one fuzzy_title_search call over N
\* adapters comes to its end, with a lyrics text or with an exception.  It
\* makes at most 3*N adapter invocations (at most three calls of search) and
\* each invocation at most two fetches; once it has ended, after the last
\* (variant, adapter) pair or before, it takes no further step.
C19_Terminates ==
    /\ []C19_Bounds
    /\ [][pc # "done"]_vars
    /\ <>(pc = "done")

\* a call over three adapters has ended after all nine invocations, the last
\* of which went as far as the lyrics fetch
C19_Witness ==
    /\ pc = "done"
    /\ Len(searcher_classes) = 3
    /\ Len(attempts) = 9
    /\ Len(fetches) = 10
    /\ outcome.kind \in {"return", "RequestException"}

\* what the last invocation did is what find_lyrics_link and postprocess give
\* for its own query and its own pages
C20_OwnResult ==
    SearchPageArrived =>
        LET a == LastAttempt
            found == find_lyrics_link(candidates, a.artist, a.strict, a.cls)
        IN  /\ a.stage = "search" => (found.kind # "return" /\ a.result = found.kind)
            /\ a.stage = "lyrics" =>
                  /\ found.kind = "return"
                  /\ lyrics_url = found.url
                  /\ a.result = "return" => a.lyrics = extract_lyrics(a.cls, extracted)

C20_OwnQuery ==
    \A k \in 1..Len(attempts) :
        /\ attempts[k].artist = artist
        /\ attempts[k].strict = strict
        /\ attempts[k].cls = searcher_classes[attempts[k].index]
        /\ attempts[k].title = fuzzy_titles[attempts[k].variant]
        /\ \A l \in 1..(k - 1) : attempts[l].result = LNF

\* C20: adapter invocations share no state.  Every invocation is given the
\* caller's artist and strict flag, the class at its place in the list and
\* the title variant of its turn, whatever the invocations before it (all of
\* which raised LyricsNotFoundError) were given and found; its outcome is
\* what its own query and its own pages give; and no step of the call changes
\* the title, artist, strict flag or adapter list the caller holds, nor the
\* variants once they are built.
C20_NoSharedState ==
    /\ [](C20_OwnQuery /\ C20_OwnResult)
    /\ [][/\ UNCHANGED <<artist, title, strict, searcher_classes>>
          /\ pc # "call" => UNCHANGED fuzzy_titles]_vars

\* the first variant found nothing at either adapter; the second variant,
\* another title, has been given to the first adapter, which returned lyrics
C20_Witness ==
    /\ pc = "done"
    /\ outcome.kind = "return"
    /\ Len(searcher_classes) = 2
    /\ Len(attempts) = 3
    /\ LastAttempt.variant = 2
    /\ LastAttempt.index = 1
    /\ LastAttempt.title # attempts[1].title
    /\ attempts[1].result = LNF
    /\ title = attempts[1].title

===========================================================================
